---- MODULE Spec2Model ----
(***************************************************************************)
(* CheevO! API proxy (Cloudflare Worker, v2): the request handler `fetch`  *)
(* with its in-memory rate limiter, its response cache and its CORS        *)
(* decoration, as a state machine.                                         *)
(*                                                                         *)
(* One handler invocation runs atomically between its suspension points    *)
(* (await request.json(), await fetch(...), await response.text()); the    *)
(* clock `now` (Date.now(), milliseconds) only moves between such steps.   *)
(* Strings the code takes apart (url.pathname, url.search) are sequences   *)
(* of one-character strings, so that startsWith, slice and + are computed. *)
(***************************************************************************)
EXTENDS Integers, Sequences, FiniteSets, TLC

VARIABLES
  now,            \* Date.now()
  env,            \* the Worker's environment variables ("" = not set)
  rateLimitMap,   \* rateLimitMap, the entries of the tracked client ids
  rateLimitRest,  \* rateLimitMap, the entries of all other client ids
  responseCache,  \* responseCache, the entries of the tracked keys
  inflight,       \* the handler invocations suspended at an await
  ev,             \* the step just taken: request, response returned (if any)
  win,            \* history: per client, requests checked since its entry was created or reset
  pinned,         \* history: per cache key, the first entry stored in the current TTL period
  nticks,         \* number of clock steps taken (bounds the run)
  admitted        \* history: per client and instant, the requests admitted (when logged)

vars == <<now, env, rateLimitMap, rateLimitRest, responseCache, inflight, ev,
          win, pinned, nticks, admitted>>

----------------------------------------------------------------------------
\* Program constants

RATE_LIMIT_WINDOW == 60000
RATE_LIMIT_MAX == 20
RATE_LIMIT_SWEEP == 10000
CACHE_TTL == 300000
CACHE_SWEEP == 500

\* Bounds of the model

MaxTicks == 2
MaxCount == 22
MaxCountOthers == 1
MaxInflight == 2
MaxArrivals == 3
MaxSuspended == 1

----------------------------------------------------------------------------
\* Strings

S_KBO == <<"/", "a", "p", "i", "/", "k", "b", "o">>
S_GNEWS == <<"/", "a", "p", "i", "/", "g", "n", "e", "w", "s">>
S_FINNHUB == <<"/", "a", "p", "i", "/", "f", "i", "n", "n", "h", "u", "b">>
S_ANTHROPIC == <<"/", "a", "p", "i", "/", "a", "n", "t", "h", "r", "o", "p", "i", "c">>
S_ROOT == <<"/">>
S_HEALTH == <<"/", "h", "e", "a", "l", "t", "h">>

\* String.prototype.startsWith
startsWith(s, p) == Len(p) <= Len(s) /\ SubSeq(s, 1, Len(p)) = p

\* Array.prototype.includes on a sequence
includes(seq, x) == \E i \in DOMAIN seq : seq[i] = x

\* headers.get(name) || dflt, the header given as <<>> (absent) or <<value>>
headerOr(h, dflt) == IF h = <<>> \/ h[1] = "" THEN dflt ELSE h[1]

----------------------------------------------------------------------------
\* Rate limiter

\* now > entry.resetAt: the window of an entry has passed
rlExpired_geq(t, resetAt) == t >= resetAt
rlExpired(t, resetAt) == t > resetAt

\* entry.count <= RATE_LIMIT_MAX
rlAdmit_lt(count) == count < RATE_LIMIT_MAX
rlAdmit_oneMore(count) == count <= RATE_LIMIT_MAX + 1
rlAdmit(count) == count <= RATE_LIMIT_MAX

NoRest == [n |-> 0, resetAt |-> 0]

\* rateLimitMap.size
rlSize(m, rest) == Cardinality(DOMAIN m) + rest.n

\* The cleanup loop of checkRateLimit
rlSweep_openToo(m, rest, t) ==
  IF rlSize(m, rest) > RATE_LIMIT_SWEEP
  THEN [map |-> [k \in {} |-> m[k]], rest |-> NoRest]
  ELSE [map |-> m, rest |-> rest]
rlSweep(m, rest, t) ==
  IF rlSize(m, rest) > RATE_LIMIT_SWEEP
  THEN [map |-> [k \in {x \in DOMAIN m : ~rlExpired(t, m[x].resetAt)} |-> m[k]],
        rest |-> IF rest.n > 0 /\ rlExpired(t, rest.resetAt) THEN NoRest ELSE rest]
  ELSE [map |-> m, rest |-> rest]

\* The entry checkRateLimit stores for `ip`
rlEntry_noreset(m, ip, t) ==
  LET entry == IF ip \in DOMAIN m THEN m[ip]
               ELSE [count |-> 0, resetAt |-> t + RATE_LIMIT_WINDOW]
  IN  [entry EXCEPT !.count = @ + 1]
rlEntry(m, ip, t) ==
  LET entry == IF ip \in DOMAIN m THEN m[ip]
               ELSE [count |-> 0, resetAt |-> t + RATE_LIMIT_WINDOW]
      fresh == IF rlExpired(t, entry.resetAt)
               THEN [count |-> 0, resetAt |-> t + RATE_LIMIT_WINDOW]
               ELSE entry
  IN  [fresh EXCEPT !.count = @ + 1]

\* checkRateLimit(ip) at time t on the table (m, rest): the table after, and the result
checkRateLimit_uncounted(m, rest, ip, t) ==
  LET entry == rlEntry(m, ip, t)
  IN  [map |-> m, rest |-> rest, ok |-> rlAdmit(entry.count)]
checkRateLimit(m, rest, ip, t) ==
  LET entry == rlEntry(m, ip, t)
      m1 == [k \in DOMAIN m \cup {ip} |-> IF k = ip THEN entry ELSE m[k]]
      sw == rlSweep(m1, rest, t)
  IN  [map |-> sw.map, rest |-> sw.rest, ok |-> rlAdmit(entry.count)]

\* checkRateLimit(ip) for one more client id that is not tracked and has no entry:
\* its entry {count: 1, resetAt: t + WINDOW} joins the rest, then the cleanup runs
checkRateLimitRest(m, rest, t) ==
  LET rest1 == [n |-> rest.n + 1, resetAt |-> t + RATE_LIMIT_WINDOW]
      sw == rlSweep(m, rest1, t)
  IN  [map |-> sw.map, rest |-> sw.rest, ok |-> rlAdmit(1)]

----------------------------------------------------------------------------
\* Response cache

CACHEABLE_PREFIXES == <<S_KBO>>

\* CACHEABLE_PREFIXES.some(p => url.pathname.startsWith(p))
isCacheable_any(pathname) == TRUE
isCacheable(pathname) ==
  \E i \in DOMAIN CACHEABLE_PREFIXES : startsWith(pathname, CACHEABLE_PREFIXES[i])

\* Date.now() < entry.expiresAt
cacheFresh_leq(t, expiresAt) == t <= expiresAt
cacheFresh(t, expiresAt) == t < expiresAt

NoEntry == [body |-> "", status |-> 0, contentType |-> "", expiresAt |-> 0]

\* getCached(key) at time t: the entry returned (NoEntry for null) and the table after
getCached_keep(c, key, t) ==
  IF key \in DOMAIN c /\ cacheFresh(t, c[key].expiresAt)
  THEN [entry |-> c[key], cache |-> c]
  ELSE [entry |-> NoEntry, cache |-> c]
getCached(c, key, t) ==
  IF key \in DOMAIN c /\ cacheFresh(t, c[key].expiresAt)
  THEN [entry |-> c[key], cache |-> c]
  ELSE [entry |-> NoEntry, cache |-> [k \in DOMAIN c \ {key} |-> c[k]]]

\* setCache(key, body, status, contentType) at time t
setCache(c, key, body, status, contentType, t) ==
  LET swept == IF Cardinality(DOMAIN c) > CACHE_SWEEP
               THEN [k \in {x \in DOMAIN c : ~(t > c[x].expiresAt)} |-> c[k]]
               ELSE c
      entry == [body |-> body, status |-> status, contentType |-> contentType,
                expiresAt |-> t + CACHE_TTL]
  IN  [k \in DOMAIN swept \cup {key} |-> IF k = key THEN entry ELSE swept[k]]

\* apiResponse.ok
responseOk_all(status) == status >= 200
responseOk(status) == status >= 200 /\ status <= 299

----------------------------------------------------------------------------
\* Responses

\* new Response(body, {status, headers}) before corsResponse: no CORS header yet
Response(status, body, contentType, xcache) ==
  [status |-> status, body |-> body, contentType |-> contentType, xcache |-> xcache,
   acao |-> "", acam |-> "", acah |-> "", acma |-> "", vary |-> ""]

\* Response.json(obj, {status}); the object is named by a tag
ResponseJson(tag, status) == Response(status, tag, "application/json", "")

NoResp == Response(0, "", "", "")

\* CORS whitelist of corsResponse
ALLOWED_ORIGINS ==
  <<"https://meyermansheidi.github.io", "http://localhost:3000",
    "http://localhost:5500", "http://127.0.0.1:5500">>

\* allowedOrigins after the optional push of env.ALLOWED_ORIGIN
allowedOrigins(e) ==
  IF e.ALLOWED_ORIGIN # "" /\ ~includes(ALLOWED_ORIGINS, e.ALLOWED_ORIGIN)
  THEN Append(ALLOWED_ORIGINS, e.ALLOWED_ORIGIN)
  ELSE ALLOWED_ORIGINS

\* The value corsResponse sets for Access-Control-Allow-Origin
allowOrigin_echo(e, origin) ==
  IF origin # "" /\ origin # "null" THEN origin ELSE allowedOrigins(e)[1]
allowOrigin(e, origin) ==
  IF includes(allowedOrigins(e), origin) THEN origin
  ELSE IF origin = "" \/ origin = "null" THEN allowedOrigins(e)[1]
  ELSE allowedOrigins(e)[1]

\* corsResponse(env, origin, response)
corsResponse_errorsBare(e, origin, response) ==
  IF response.status >= 400 THEN response
  ELSE [response EXCEPT !.acao = allowOrigin(e, origin),
                        !.acam = "GET, POST, OPTIONS",
                        !.acah = "Content-Type, Authorization",
                        !.acma = "86400",
                        !.vary = "Origin"]
corsResponse(e, origin, response) ==
  [response EXCEPT !.acao = allowOrigin(e, origin),
                   !.acam = "GET, POST, OPTIONS",
                   !.acah = "Content-Type, Authorization",
                   !.acma = "86400",
                   !.vary = "Origin"]

----------------------------------------------------------------------------
\* Routes

\* Object.keys(API_ROUTES), in declaration order
API_ROUTES == <<S_KBO, S_GNEWS, S_FINNHUB>>

\* Object.entries(API_ROUTES).find(([prefix]) => url.pathname.startsWith(prefix)):
\* the index of the first matching route, 0 for undefined
matchedRoute(pathname) ==
  IF \E i \in DOMAIN API_ROUTES : startsWith(pathname, API_ROUTES[i])
  THEN CHOOSE i \in DOMAIN API_ROUTES :
         /\ startsWith(pathname, API_ROUTES[i])
         /\ \A j \in 1..(i - 1) : ~startsWith(pathname, API_ROUTES[j])
  ELSE 0

\* route.target of the i-th route, one piece that holds no '?'
routeTarget(i) ==
  CASE i = 1 -> <<"https://cbeapi.be/api">>
    [] i = 2 -> <<"https://gnews.io/api/v4">>
    [] i = 3 -> <<"https://finnhub.io/api/v1">>

\* route.addKey(url, env) where the route has one: the credential appended as
\* a query parameter when it is configured
addKey(i, url, e) ==
  LET sep == IF includes(url, "?") THEN "&" ELSE "?"
  IN  CASE i = 2 -> IF e.GNEWS_API_KEY # ""
                    THEN url \o <<sep, "apikey=", e.GNEWS_API_KEY>> ELSE url
        [] i = 3 -> IF e.FINNHUB_KEY # ""
                    THEN url \o <<sep, "token=", e.FINNHUB_KEY>> ELSE url
        [] OTHER -> url

\* The Authorization header of route.addHeaders(env) where the route has one
addHeaders(i, e) ==
  IF i = 1 /\ e.CBEAPI_TOKEN # "" THEN <<"Bearer ", e.CBEAPI_TOKEN>> ELSE <<>>

\* url.pathname.slice(prefix.length)
remainingPath(pathname, prefix) == SubSeq(pathname, Len(prefix) + 1, Len(pathname))

\* The url the generic route fetches for request r, matched by the i-th route
targetUrl(r, i, e) ==
  addKey(i, routeTarget(i) \o remainingPath(r.pathname, API_ROUTES[i]) \o r.search, e)

----------------------------------------------------------------------------
\* The handler, one operator per stretch between suspension points.  Each
\* returns the tables after the stretch and either the response returned
\* (pc = "done") or the await it stops at, with the number of upstream
\* fetches this request has issued so far and whether its body was read.

\* A request body: what request.json() makes of it, the shape of body.messages,
\* and body.max_tokens and body.temperature as <<>> (not set) or <<number>>,
\* the temperature counted in tenths
NoBody == [json |-> "none", messages |-> "absent", max_tokens |-> <<>>, temperature |-> <<>>]
Reply(status, body, contentType) ==
  [status |-> status, body |-> body, contentType |-> contentType]

\* The request of an outbound fetch(url, {method, headers, body}): the url as
\* a sequence of pieces, the credential headers as sequences of pieces (<<>> =
\* header not sent) and,
\* for the chat-completion upstream, max_tokens and temperature (in tenths)
\* of the JSON body
Sent(url, method, authorization, xApiKey, maxTokens, temperature) ==
  [url |-> url, method |-> method, authorization |-> authorization,
   xApiKey |-> xApiKey, max_tokens |-> maxTokens, temperature |-> temperature]

NoSent == Sent(<<>>, "", <<>>, <<>>, 0, 0)

Outcome(pc, resp, m, rest, c, calls, bodyRead) ==
  [pc |-> pc, resp |-> resp, map |-> m, rest |-> rest, cache |-> c,
   calls |-> calls, bodyRead |-> bodyRead, sent |-> NoSent]

\* The outcome of a stretch that ends by issuing the outbound fetch `sent`
Fetching(pc, sent, m, rest, c, bodyRead) ==
  [Outcome(pc, NoResp, m, rest, c, 1, bodyRead) EXCEPT !.sent = sent]

\* v || dflt for an optional number v: 0 is falsy
orDefault(v, dflt) == IF v = <<>> THEN dflt ELSE IF v[1] = 0 THEN dflt ELSE v[1]

\* Math.min
MathMin(a, b) == IF a <= b THEN a ELSE b

\* Math.min(body.max_tokens || 2048, 4096)
maxTokens(b) == MathMin(orDefault(b.max_tokens, 2048), 4096)

\* Math.min(body.temperature || 0.7, 1.0), in tenths
temperatureOf(b) == MathMin(orDefault(b.temperature, 7), 10)

S_ANTHROPIC_URL == <<"https://api.anthropic.com/v1/messages">>

\* The chat-completion route answers 503 when the credential is not configured
chatKeyMissing_never(e) == FALSE
chatKeyMissing(e) == e.ANTHROPIC_API_KEY = ""

\* fetch(request, env) from its start to its first await or return
handleStart(r, m, rest, c, e, t) ==
  LET origin == headerOr(r.origin, "")
      cors(resp) == corsResponse(e, origin, resp)
  IN
  IF r.method = "OPTIONS"
  THEN Outcome("done", cors(Response(204, "", "", "")), m, rest, c, 0, FALSE)
  ELSE
  LET clientIP == headerOr(r.ip, "unknown")
      rl == checkRateLimit(m, rest, clientIP, t)
  IN
  IF ~rl.ok
  THEN Outcome("done", cors(ResponseJson("rate-limit", 429)), rl.map, rl.rest, c, 0, FALSE)
  ELSE IF r.pathname = S_ROOT \/ r.pathname = S_HEALTH
  THEN Outcome("done", cors(ResponseJson("health", 200)), rl.map, rl.rest, c, 0, FALSE)
  ELSE IF r.pathname = S_ANTHROPIC /\ r.method = "POST"
  THEN IF chatKeyMissing(e)
       THEN Outcome("done", cors(ResponseJson("no-key", 503)), rl.map, rl.rest, c, 0, FALSE)
       ELSE Outcome("json", NoResp, rl.map, rl.rest, c, 0, TRUE)
  ELSE IF matchedRoute(r.pathname) = 0
  THEN Outcome("done", cors(ResponseJson("no-route", 404)), rl.map, rl.rest, c, 0, FALSE)
  ELSE
  LET cacheKey == r.pathname \o r.search
      look == IF r.method = "GET" /\ isCacheable(r.pathname)
              THEN getCached(c, cacheKey, t)
              ELSE [entry |-> NoEntry, cache |-> c]
  IN
  IF look.entry # NoEntry
  THEN Outcome("done",
               cors(Response(look.entry.status, look.entry.body,
                             IF look.entry.contentType # "" THEN look.entry.contentType
                             ELSE "application/json", "HIT")),
               rl.map, rl.rest, look.cache, 0, FALSE)
  ELSE Fetching("fetch",
                Sent(targetUrl(r, matchedRoute(r.pathname), e), r.method,
                     addHeaders(matchedRoute(r.pathname), e), <<>>, 0, 0),
                rl.map, rl.rest, look.cache, FALSE)

\* The chat-completion route from the resolution of request.json() to the
\* upstream fetch or a return; a rejected request.json() and a TypeError on
\* body.messages both land in the catch
handleJson_recount(r, m, rest, c, e) ==
  LET origin == headerOr(r.origin, "")
      cors(resp) == corsResponse(e, origin, resp)
      b == r.body
      ip == headerOr(r.ip, "unknown")
      m2 == IF ip \in DOMAIN m THEN [m EXCEPT ![ip].count = @ + 1] ELSE m
  IN
  IF b.json = "unparsable" \/ b.json = "null"
  THEN Outcome("done", cors(ResponseJson("chat-failed", 502)), m2, rest, c, 0, TRUE)
  ELSE IF b.json # "object" \/ b.messages # "array"
  THEN Outcome("done", cors(ResponseJson("bad-request", 400)), m2, rest, c, 0, TRUE)
  ELSE Fetching("fetchA",
                Sent(S_ANTHROPIC_URL, "POST", <<>>, <<e.ANTHROPIC_API_KEY>>,
                     maxTokens(b), temperatureOf(b)),
                m2, rest, c, TRUE)
handleJson(r, m, rest, c, e) ==
  LET origin == headerOr(r.origin, "")
      cors(resp) == corsResponse(e, origin, resp)
      b == r.body
  IN
  IF b.json = "unparsable" \/ b.json = "null"
  THEN Outcome("done", cors(ResponseJson("chat-failed", 502)), m, rest, c, 0, TRUE)
  ELSE IF b.json # "object" \/ b.messages # "array"
  THEN Outcome("done", cors(ResponseJson("bad-request", 400)), m, rest, c, 0, TRUE)
  ELSE Fetching("fetchA",
                Sent(S_ANTHROPIC_URL, "POST", <<>>, <<e.ANTHROPIC_API_KEY>>,
                     maxTokens(b), temperatureOf(b)),
                m, rest, c, TRUE)

\* From the resolution of the upstream fetch to await response.text(), or the
\* catch when the fetch rejected (failed)
handleFetch_detailUrl(r, pc, failed, calls, bodyRead, m, rest, c, e) ==
  LET origin == headerOr(r.origin, "")
      cors(resp) == corsResponse(e, origin, resp)
  IN
  IF failed
  THEN Outcome("done",
               cors(ResponseJson(IF pc = "fetchA" THEN e.ANTHROPIC_API_KEY
                                 ELSE e.GNEWS_API_KEY, 502)),
               m, rest, c, calls, bodyRead)
  ELSE Outcome(IF pc = "fetchA" THEN "textA" ELSE "text", NoResp, m, rest, c, calls, bodyRead)
handleFetch_retry(r, pc, failed, calls, bodyRead, m, rest, c, e) ==
  LET origin == headerOr(r.origin, "")
      cors(resp) == corsResponse(e, origin, resp)
  IN
  IF failed /\ calls < 2
  THEN Outcome(pc, NoResp, m, rest, c, calls + 1, bodyRead)
  ELSE IF failed
  THEN Outcome("done",
               cors(ResponseJson(IF pc = "fetchA" THEN "chat-failed" ELSE "api-failed", 502)),
               m, rest, c, calls, bodyRead)
  ELSE Outcome(IF pc = "fetchA" THEN "textA" ELSE "text", NoResp, m, rest, c, calls, bodyRead)
handleFetch(r, pc, failed, calls, bodyRead, m, rest, c, e) ==
  LET origin == headerOr(r.origin, "")
      cors(resp) == corsResponse(e, origin, resp)
  IN
  IF failed
  THEN Outcome("done",
               cors(ResponseJson(IF pc = "fetchA" THEN "chat-failed" ELSE "api-failed", 502)),
               m, rest, c, calls, bodyRead)
  ELSE Outcome(IF pc = "fetchA" THEN "textA" ELSE "text", NoResp, m, rest, c, calls, bodyRead)

\* Whether the generic route stores the upstream reply in the cache
storesReply_anyMethod(r, reply) ==
  responseOk(reply.status) /\ isCacheable(r.pathname)
storesReply(r, reply) ==
  r.method = "GET" /\ responseOk(reply.status) /\ isCacheable(r.pathname)

\* From the resolution of response.text() to the return; reply is the upstream
\* response (the code reads nothing of it before this point), textOk is FALSE
\* when reading its body rejected
handleText(r, pc, reply, textOk, calls, bodyRead, m, rest, c, e, t) ==
  LET origin == headerOr(r.origin, "")
      cors(resp) == corsResponse(e, origin, resp)
      contentType == IF reply.contentType # "" THEN reply.contentType ELSE "application/json"
      cacheKey == r.pathname \o r.search
  IN
  IF ~textOk
  THEN Outcome("done",
               cors(ResponseJson(IF pc = "textA" THEN "chat-failed" ELSE "api-failed", 502)),
               m, rest, c, calls, bodyRead)
  ELSE IF pc = "textA"
  THEN Outcome("done", cors(Response(reply.status, reply.body, "application/json", "")),
               m, rest, c, calls, bodyRead)
  ELSE Outcome("done", cors(Response(reply.status, reply.body, contentType, "MISS")),
               m, rest,
               IF storesReply(r, reply)
               THEN setCache(c, cacheKey, reply.body, reply.status, contentType, t)
               ELSE c,
               calls, bodyRead)

----------------------------------------------------------------------------
\* The first version of the Worker (worker.js): the same routes, no rate
\* limiter, no cache, no chat-completion route, and a corsResponse that does
\* not look at the request's origin.  Its handlers touch no table.

\* corsResponse(env, response) of worker.js
corsResponseV1(e, response) ==
  [response EXCEPT !.acao = IF e.ALLOWED_ORIGIN # "" THEN e.ALLOWED_ORIGIN ELSE "*",
                   !.acam = "GET, POST, OPTIONS",
                   !.acah = "Content-Type",
                   !.acma = "86400"]

\* fetch(request, env) of worker.js from its start to its first await or return
handleStartV1(r, m, rest, c, e) ==
  IF r.method = "OPTIONS"
  THEN Outcome("done", corsResponseV1(e, Response(204, "", "", "")), m, rest, c, 0, FALSE)
  ELSE IF r.pathname = S_ROOT \/ r.pathname = S_HEALTH
  THEN Outcome("done", corsResponseV1(e, ResponseJson("health-v1", 200)), m, rest, c, 0, FALSE)
  ELSE IF matchedRoute(r.pathname) = 0
  THEN Outcome("done", corsResponseV1(e, ResponseJson("no-route-v1", 404)), m, rest, c, 0, FALSE)
  ELSE Fetching("fetchV1",
                Sent(targetUrl(r, matchedRoute(r.pathname), e), r.method,
                     addHeaders(matchedRoute(r.pathname), e), <<>>, 0, 0),
                m, rest, c, FALSE)

\* worker.js from the resolution of the upstream fetch to await response.text()
handleFetchV1(r, failed, calls, m, rest, c, e) ==
  IF failed
  THEN Outcome("done", corsResponseV1(e, ResponseJson("api-failed", 502)), m, rest, c, calls, FALSE)
  ELSE Outcome("textV1", NoResp, m, rest, c, calls, FALSE)

\* worker.js from the resolution of response.text() to the return
handleTextV1(r, reply, textOk, calls, m, rest, c, e) ==
  IF ~textOk
  THEN Outcome("done", corsResponseV1(e, ResponseJson("api-failed", 502)), m, rest, c, calls, FALSE)
  ELSE Outcome("done",
               corsResponseV1(e, Response(reply.status, reply.body,
                                          IF reply.contentType # "" THEN reply.contentType
                                          ELSE "application/json", "")),
               m, rest, c, calls, FALSE)

----------------------------------------------------------------------------
\* State and steps

Slots == 1..MaxInflight

Req(method, pathname, search, ip, origin, body) ==
  [method |-> method, pathname |-> pathname, search |-> search, ip |-> ip,
   origin |-> origin, body |-> body]

NoReq == Req("", <<>>, <<>>, <<>>, <<>>, NoBody)

Idle == [pc |-> "idle", req |-> NoReq, calls |-> 0, bodyRead |-> FALSE]

\* What a step shows: the request it served and, when the handler returned in
\* this step (done), the response, with the upstream fetches the request issued
\* and, for an arrival, the client's rate-limit entry as the request found it
NoPrior == [count |-> 0, resetAt |-> 0]

Event(act, r, o, prior) ==
  [act |-> act, req |-> r, done |-> o.pc = "done", resp |-> o.resp,
   calls |-> o.calls, bodyRead |-> o.bodyRead, prior |-> prior, sent |-> o.sent]

NoEvent(act) ==
  [act |-> act, req |-> NoReq, done |-> FALSE, resp |-> NoResp, calls |-> 0,
   bodyRead |-> FALSE, prior |-> NoPrior, sent |-> NoSent]

\* new Map()
EmptyMap == [k \in {} |-> NoEntry]

Min(S) == CHOOSE x \in S : \A y \in S : x <= y

\* The client ids whose rate-limit entries the model tracks one by one
Clients == {"unknown", "1.1.1.1"}

\* History: the log of admissions, not kept (NoLog) or kept from empty (NewLog)
NoLog == [on |-> FALSE, at |-> EmptyMap]
NewLog == [on |-> TRUE, at |-> EmptyMap]

\* The log after one more request of client c is admitted at time t
LogAdmission(log, c, t) ==
  IF ~log.on THEN log
  ELSE [log EXCEPT !.at =
          [k \in DOMAIN log.at \cup {<<c, t>>} |->
             IF k = <<c, t>>
             THEN IF k \in DOMAIN log.at THEN log.at[k] + 1 ELSE 1
             ELSE log.at[k]]]

\* The state after the module is loaded, the table of the rate limiter
\* possibly already holding the entries m0 (with the history w0 of them)
InitWith(envs, m0, w0) ==
  /\ now = 0
  /\ env \in envs
  /\ rateLimitMap = m0
  /\ rateLimitRest = NoRest
  /\ responseCache = EmptyMap
  /\ inflight = [s \in Slots |-> Idle]
  /\ ev = NoEvent("init")
  /\ win = w0
  /\ pinned = EmptyMap
  /\ nticks = 0
  /\ admitted = NoLog

NoRequests == [c \in Clients |-> 0]

\* History: a key's first entry of a TTL period, taken when the cache goes
\* from c0 to c1 at time t
Pin(p, c0, c1, t) ==
  LET written == {k \in DOMAIN c1 : IF k \in DOMAIN c0 THEN c1[k] # c0[k] ELSE TRUE}
      repin == {k \in written : IF k \in DOMAIN p THEN t >= p[k].expiresAt ELSE TRUE}
  IN  [k \in DOMAIN p \cup repin |-> IF k \in repin THEN c1[k] ELSE p[k]]

\* Time passes between two steps of the handlers
Tick(d) ==
  /\ nticks < MaxTicks
  /\ now' = now + d
  /\ nticks' = nticks + 1
  /\ ev' = NoEvent("tick")
  /\ UNCHANGED <<env, rateLimitMap, rateLimitRest, responseCache, inflight, win, pinned,
                 admitted>>

\* rateLimitMap.get(ip).count, 0 without an entry
countOf(c) == IF c \in DOMAIN rateLimitMap THEN rateLimitMap[c].count ELSE 0

\* A request arrives: fetch(request, env) runs to its first await or return.
\* Bounds of the model: the client's entry counts to cap at most, and at most
\* nslots handlers are suspended at a time.
Receive(r, cap, nslots) ==
  LET o == handleStart(r, rateLimitMap, rateLimitRest, responseCache, env, now)
      clientIP == headerOr(r.ip, "unknown")
      free == {s \in 1..nslots : inflight[s].pc = "idle"}
      opens == IF clientIP \in DOMAIN rateLimitMap
               THEN now > rateLimitMap[clientIP].resetAt ELSE TRUE
  IN  /\ IF o.pc = "done" THEN TRUE ELSE free # {}
      /\ IF r.method = "OPTIONS" THEN TRUE
         ELSE IF opens THEN TRUE ELSE countOf(clientIP) < cap
      /\ rateLimitMap' = o.map
      /\ rateLimitRest' = o.rest
      /\ responseCache' = o.cache
      /\ inflight' = IF o.pc = "done" THEN inflight
                     ELSE [inflight EXCEPT ![Min(free)] =
                             [pc |-> o.pc, req |-> r, calls |-> o.calls,
                              bodyRead |-> o.bodyRead]]
      /\ ev' = Event("recv", r, o,
                     IF r.method # "OPTIONS" /\ clientIP \in DOMAIN rateLimitMap
                     THEN rateLimitMap[clientIP] ELSE NoPrior)
      /\ win' = IF r.method = "OPTIONS" THEN win
                ELSE [win EXCEPT ![clientIP] = IF opens THEN 1 ELSE @ + 1]
      /\ admitted' = IF r.method = "OPTIONS" THEN admitted
                     ELSE IF o.pc = "done" /\ o.resp.status = 429 THEN admitted
                     ELSE LogAdmission(admitted, clientIP, now)
      /\ UNCHANGED <<now, env, pinned, nticks>>

\* The suspended handler s goes on with outcome o
Resume(s, act, o) ==
  /\ rateLimitMap' = o.map
  /\ rateLimitRest' = o.rest
  /\ responseCache' = o.cache
  /\ inflight' = [inflight EXCEPT ![s] =
                    IF o.pc = "done" THEN Idle
                    ELSE [@ EXCEPT !.pc = o.pc, !.calls = o.calls, !.bodyRead = o.bodyRead]]
  /\ ev' = Event(act, inflight[s].req, o, NoPrior)
  /\ pinned' = Pin(pinned, responseCache, o.cache, now)
  /\ UNCHANGED <<now, env, win, nticks, admitted>>

\* await request.json() settles for handler s
JsonResolved(s) ==
  /\ inflight[s].pc = "json"
  /\ Resume(s, "json",
            handleJson(inflight[s].req, rateLimitMap, rateLimitRest, responseCache, env))

\* await fetch(...) settles for handler s: it rejects (failed) or resolves
FetchResolved(s, failed) ==
  /\ inflight[s].pc \in {"fetch", "fetchA"}
  /\ Resume(s, "fetch",
            handleFetch(inflight[s].req, inflight[s].pc, failed, inflight[s].calls,
                        inflight[s].bodyRead, rateLimitMap, rateLimitRest,
                        responseCache, env))

\* await response.text() settles for handler s, the upstream response being reply
TextResolved(s, reply, textOk) ==
  /\ inflight[s].pc \in {"text", "textA"}
  /\ Resume(s, "text",
            handleText(inflight[s].req, inflight[s].pc, reply, textOk, inflight[s].calls,
                       inflight[s].bodyRead, rateLimitMap, rateLimitRest,
                       responseCache, env, now))

\* A request arrives at the first version of the Worker
ReceiveV1(r, nslots) ==
  LET o == handleStartV1(r, rateLimitMap, rateLimitRest, responseCache, env)
      free == {s \in 1..nslots : inflight[s].pc = "idle"}
  IN  /\ IF o.pc = "done" THEN TRUE ELSE free # {}
      /\ inflight' = IF o.pc = "done" THEN inflight
                     ELSE [inflight EXCEPT ![Min(free)] =
                             [pc |-> o.pc, req |-> r, calls |-> o.calls,
                              bodyRead |-> o.bodyRead]]
      /\ ev' = Event("recvV1", r, o, NoPrior)
      /\ UNCHANGED <<now, env, rateLimitMap, rateLimitRest, responseCache, win,
                     pinned, nticks, admitted>>

\* await fetch(...) settles for handler s of the first version
FetchResolvedV1(s, failed) ==
  /\ inflight[s].pc = "fetchV1"
  /\ Resume(s, "fetchV1",
            handleFetchV1(inflight[s].req, failed, inflight[s].calls, rateLimitMap,
                          rateLimitRest, responseCache, env))

\* await response.text() settles for handler s of the first version
TextResolvedV1(s, reply, textOk) ==
  /\ inflight[s].pc = "textV1"
  /\ Resume(s, "textV1",
            handleTextV1(inflight[s].req, reply, textOk, inflight[s].calls, rateLimitMap,
                         rateLimitRest, responseCache, env))

\* n requests arrive from n client ids that are not tracked and have no entry
\* yet, all at the same instant as the entries of the rest (GET /health, so
\* that only the rate limiter sees them).  The first n - 1 leave the table at
\* or below the cleanup threshold, the last runs checkRateLimit with the cleanup.
OtherClients(n) ==
  /\ IF rateLimitRest.n = 0 THEN TRUE
     ELSE rateLimitRest.resetAt = now + RATE_LIMIT_WINDOW
  /\ rlSize(rateLimitMap, rateLimitRest) + n - 1 <= RATE_LIMIT_SWEEP
  /\ rateLimitRest.n + n <= RATE_LIMIT_SWEEP + 1
  /\ LET before == [n |-> rateLimitRest.n + n - 1, resetAt |-> now + RATE_LIMIT_WINDOW]
         o == checkRateLimitRest(rateLimitMap, before, now)
     IN  /\ rateLimitMap' = o.map
         /\ rateLimitRest' = o.rest
  /\ ev' = NoEvent("others")
  /\ UNCHANGED <<now, env, responseCache, inflight, win, pinned, nticks, admitted>>

----------------------------------------------------------------------------
\* The rate limiter alone: requests that return without suspending.  Bound of
\* the model: only the client without CF-Connecting-IP counts past
\* MaxCountOthers.

EnvNone ==
  [ALLOWED_ORIGIN |-> "", ANTHROPIC_API_KEY |-> "", CBEAPI_TOKEN |-> "",
   GNEWS_API_KEY |-> "", FINNHUB_KEY |-> ""]

RLRequests ==
  {Req(m, S_HEALTH, <<>>, ip, <<>>, NoBody) :
     m \in {"GET", "OPTIONS"}, ip \in {<<>>, <<"1.1.1.1">>}}

RLDeltas == {1, RATE_LIMIT_WINDOW}

RLBatches == {RATE_LIMIT_SWEEP - 1}

InitRL == InitWith({EnvNone}, EmptyMap, NoRequests)

NextRL ==
  \/ \E d \in RLDeltas : Tick(d)
  \/ \E r \in RLRequests :
       Receive(r, IF r.ip = <<>> THEN MaxCount ELSE MaxCountOthers, 0)
  \/ \E n \in RLBatches : OtherClients(n)

SpecRL == InitRL /\ [][NextRL]_vars

----------------------------------------------------------------------------
\* The cache: GETs of one cacheable key, answered by the upstream with one of
\* two bodies, several of them in flight at a time

EnvAll ==
  [ALLOWED_ORIGIN |-> "", ANTHROPIC_API_KEY |-> "sk-ant", CBEAPI_TOKEN |-> "cbe-token",
   GNEWS_API_KEY |-> "gnews-key", FINNHUB_KEY |-> "finnhub-key"]

P_KBO1 == S_KBO \o <<"/", "1">>

CacheRequests == {Req("GET", P_KBO1, <<>>, <<>>, <<>>, NoBody)}

CacheReplies == {Reply(200, b, "") : b \in {"b1", "b2"}}

CacheDeltas == {1, CACHE_TTL - 1}

InitCache == InitWith({EnvAll}, EmptyMap, NoRequests)

NextCache ==
  \/ \E d \in CacheDeltas : Tick(d)
  \/ \E r \in CacheRequests : Receive(r, MaxArrivals, MaxInflight)
  \/ \E s \in Slots, failed \in BOOLEAN : FetchResolved(s, failed)
  \/ \E s \in Slots, reply \in CacheReplies, textOk \in BOOLEAN :
       TextResolved(s, reply, textOk)

SpecCache == InitCache /\ [][NextCache]_vars

----------------------------------------------------------------------------
\* What is stored: every kind of route and method, upstream statuses on both
\* sides of the success range

BodyOf(json, messages) == [NoBody EXCEPT !.json = json, !.messages = messages]

P_KBOX == S_KBO \o <<"x">>
P_GNEWS1 == S_GNEWS \o <<"/", "1">>

StoreRequests ==
  {Req("GET", P_KBO1, <<>>, <<>>, <<>>, NoBody),
   Req("POST", P_KBO1, <<>>, <<>>, <<>>, NoBody),
   Req("GET", P_KBOX, <<"?", "q">>, <<>>, <<>>, NoBody),
   Req("GET", P_GNEWS1, <<>>, <<>>, <<>>, NoBody),
   Req("POST", S_ANTHROPIC, <<>>, <<>>, <<>>, BodyOf("object", "array"))}

StoreReplies == {Reply(st, "b1", "") : st \in {200, 299, 300, 404}}

InitStore == InitWith({EnvAll}, EmptyMap, NoRequests)

NextStore ==
  \/ \E r \in StoreRequests : Receive(r, MaxArrivals, MaxInflight)
  \/ \E s \in Slots : JsonResolved(s)
  \/ \E s \in Slots, failed \in BOOLEAN : FetchResolved(s, failed)
  \/ \E s \in Slots, reply \in StoreReplies, textOk \in BOOLEAN :
       TextResolved(s, reply, textOk)

SpecStore == InitStore /\ [][NextStore]_vars

----------------------------------------------------------------------------
\* Every way the handler returns, under several configurations and origins.
\* The client without CF-Connecting-IP has already used its quota of the first
\* window (RATE_LIMIT_MAX requests at time 0), so that its requests are denied.

O_GITHUB == "https://meyermansheidi.github.io"
O_CUSTOM == "https://custom.example"
O_EVIL == "https://evil.example"

CorsEnvs ==
  {[EnvAll EXCEPT !.ALLOWED_ORIGIN = a, !.ANTHROPIC_API_KEY = k] :
     a \in {"", O_CUSTOM, "http://localhost:3000", "null"}, k \in {"", "sk-ant"}}

Origins ==
  {<<>>, <<"null">>, <<O_GITHUB>>, <<"http://127.0.0.1:5500">>, <<O_CUSTOM>>, <<O_EVIL>>}

P_UNKNOWN == <<"/", "a", "p", "i", "/", "u", "n", "k", "n", "o", "w", "n">>

CorsRequests ==
  {Req("GET", S_HEALTH, <<>>, <<"1.1.1.1">>, o, NoBody) : o \in Origins}
  \cup {Req("OPTIONS", S_HEALTH, <<>>, <<"1.1.1.1">>, o, NoBody) : o \in {<<>>, <<O_CUSTOM>>}}
  \cup {Req("GET", S_ROOT, <<>>, <<>>, <<O_GITHUB>>, NoBody),
        Req("GET", P_UNKNOWN, <<>>, <<"1.1.1.1">>, <<O_EVIL>>, NoBody),
        Req("GET", P_KBO1, <<>>, <<"1.1.1.1">>, <<O_GITHUB>>, NoBody)}
  \cup {Req("POST", S_ANTHROPIC, <<>>, <<"1.1.1.1">>, <<O_EVIL>>, b) :
          b \in {BodyOf("unparsable", "absent"), BodyOf("object", "absent"),
                 BodyOf("object", "array")}}

CorsReplies == {Reply(st, "b1", "") : st \in {200, 500}}

QuotaUsed == [c \in {"unknown"} |-> [count |-> RATE_LIMIT_MAX, resetAt |-> RATE_LIMIT_WINDOW]]

InitCors ==
  InitWith(CorsEnvs, QuotaUsed, [c \in Clients |-> IF c = "unknown" THEN RATE_LIMIT_MAX ELSE 0])

NextCors ==
  \/ \E r \in CorsRequests :
       Receive(r, IF r.ip = <<>> THEN MaxCount ELSE MaxArrivals, MaxSuspended)
  \/ \E s \in Slots : JsonResolved(s)
  \/ \E s \in Slots, failed \in BOOLEAN : FetchResolved(s, failed)
  \/ \E s \in Slots, reply \in CorsReplies, textOk \in BOOLEAN :
       TextResolved(s, reply, textOk)

SpecCors == InitCors /\ [][NextCors]_vars

----------------------------------------------------------------------------
\* The chat-completion route: POSTs to /api/anthropic with every shape of
\* body, with and without the credential; the client without CF-Connecting-IP
\* has used its quota, as above

ChatEnvs == {[EnvAll EXCEPT !.ANTHROPIC_API_KEY = k] : k \in {"", "sk-ant"}}

\* request bodies: text that is not JSON, JSON null, a JSON number or string,
\* and objects whose messages is absent, falsy, a non-array or an array
ChatBodies ==
  {BodyOf("unparsable", "absent"), BodyOf("null", "absent"), BodyOf("scalar", "absent")}
  \cup {BodyOf("object", m) : m \in {"absent", "falsy", "notarray", "array"}}

ChatRequests ==
  {Req("POST", S_ANTHROPIC, <<>>, ip, <<>>, b) : ip \in {<<>>, <<"1.1.1.1">>}, b \in ChatBodies}

ChatReplies == {Reply(st, "b1", "") : st \in {200, 500}}

InitChat ==
  InitWith(ChatEnvs, QuotaUsed, [c \in Clients |-> IF c = "unknown" THEN RATE_LIMIT_MAX ELSE 0])

NextChat ==
  \/ \E r \in ChatRequests :
       Receive(r, IF r.ip = <<>> THEN MaxCount ELSE MaxArrivals, MaxInflight)
  \/ \E s \in Slots : JsonResolved(s)
  \/ \E s \in Slots, failed \in BOOLEAN : FetchResolved(s, failed)
  \/ \E s \in Slots, reply \in ChatReplies, textOk \in BOOLEAN :
       TextResolved(s, reply, textOk)

SpecChat == InitChat /\ [][NextChat]_vars

----------------------------------------------------------------------------
\* The parameters of the chat-completion route: valid requests that set
\* max_tokens or temperature (in tenths) to values on both sides of the
\* default and of the limit, or leave them unset

ChatBody(mt, temp) ==
  [BodyOf("object", "array") EXCEPT !.max_tokens = mt, !.temperature = temp]

MaxTokensValues == {<<>>, <<-1>>, <<0>>, <<1>>, <<2048>>, <<4096>>, <<4097>>, <<999999>>}

TemperatureValues == {<<>>, <<-1>>, <<0>>, <<3>>, <<7>>, <<10>>, <<11>>, <<20>>}

ParamRequests ==
  {Req("POST", S_ANTHROPIC, <<>>, <<>>, <<>>, ChatBody(mt, <<>>)) : mt \in MaxTokensValues}
  \cup {Req("POST", S_ANTHROPIC, <<>>, <<>>, <<>>, ChatBody(<<>>, tp)) : tp \in TemperatureValues}
  \cup {Req("POST", S_ANTHROPIC, <<>>, <<>>, <<>>, ChatBody(<<999999>>, <<0>>))}

InitParams == InitWith({EnvAll}, EmptyMap, NoRequests)

NextParams ==
  \/ \E r \in ParamRequests : Receive(r, MaxArrivals, MaxSuspended)
  \/ \E s \in Slots : JsonResolved(s)
  \/ \E s \in Slots, failed \in BOOLEAN : FetchResolved(s, failed)
  \/ \E s \in Slots, reply \in ChatReplies, textOk \in BOOLEAN :
       TextResolved(s, reply, textOk)

SpecParams == InitParams /\ [][NextParams]_vars

----------------------------------------------------------------------------
\* Upstream calls: every way through both versions of the handler, with and
\* without the chat credential; the client without CF-Connecting-IP has used
\* its quota, as above

CallRequests ==
  {Req("OPTIONS", P_KBO1, <<>>, <<"1.1.1.1">>, <<>>, NoBody),
   Req("GET", S_ROOT, <<>>, <<>>, <<>>, NoBody),
   Req("GET", S_HEALTH, <<>>, <<"1.1.1.1">>, <<>>, NoBody),
   Req("GET", P_UNKNOWN, <<>>, <<"1.1.1.1">>, <<>>, NoBody),
   Req("GET", P_KBO1, <<>>, <<"1.1.1.1">>, <<>>, NoBody),
   Req("POST", P_GNEWS1, <<>>, <<"1.1.1.1">>, <<>>, NoBody)}
  \cup {Req("POST", S_ANTHROPIC, <<>>, <<"1.1.1.1">>, <<>>, b) :
          b \in {BodyOf("unparsable", "absent"), BodyOf("object", "absent"),
                 BodyOf("object", "array")}}

CallRequestsV1 ==
  {Req("OPTIONS", P_KBO1, <<>>, <<>>, <<>>, NoBody),
   Req("GET", S_HEALTH, <<>>, <<>>, <<>>, NoBody),
   Req("GET", P_UNKNOWN, <<>>, <<>>, <<>>, NoBody),
   Req("GET", P_KBO1, <<>>, <<>>, <<>>, NoBody)}

CallReplies == {Reply(st, "b1", "") : st \in {200, 500}}

InitCalls ==
  InitWith(ChatEnvs, QuotaUsed, [c \in Clients |-> IF c = "unknown" THEN RATE_LIMIT_MAX ELSE 0])

NextCalls ==
  \/ \E r \in CallRequests :
       Receive(r, IF r.ip = <<>> THEN MaxCount ELSE MaxArrivals, MaxSuspended)
  \/ \E s \in Slots : JsonResolved(s)
  \/ \E s \in Slots, failed \in BOOLEAN : FetchResolved(s, failed)
  \/ \E s \in Slots, reply \in CallReplies, textOk \in BOOLEAN :
       TextResolved(s, reply, textOk)
  \/ \E r \in CallRequestsV1 : ReceiveV1(r, MaxSuspended)
  \/ \E s \in Slots, failed \in BOOLEAN : FetchResolvedV1(s, failed)
  \/ \E s \in Slots, reply \in CallReplies, textOk \in BOOLEAN :
       TextResolvedV1(s, reply, textOk)

SpecCalls == InitCalls /\ [][NextCalls]_vars

----------------------------------------------------------------------------
\* Routing: paths that are a route prefix, a prefix followed by '/', a prefix
\* followed by something else, and paths no prefix starts; both versions

P_FINNHUB1 == S_FINNHUB \o <<"/", "1">>
P_GNEWSX == S_GNEWS \o <<"x">>
P_API == <<"/", "a", "p", "i">>

RoutePaths ==
  {S_ROOT, S_HEALTH, S_ANTHROPIC, P_API, P_UNKNOWN, S_KBO, P_KBO1, P_KBOX, P_GNEWS1,
   P_GNEWSX, P_FINNHUB1}

RouteRequests ==
  {Req("GET", p, <<>>, <<>>, <<>>, NoBody) : p \in RoutePaths}
  \cup {Req("POST", S_ANTHROPIC, <<>>, <<>>, <<>>, BodyOf("object", "array")),
        Req("POST", P_KBOX, <<>>, <<>>, <<>>, NoBody),
        Req("OPTIONS", P_KBOX, <<>>, <<>>, <<>>, NoBody)}

RouteRequestsV1 == {Req("GET", p, <<>>, <<>>, <<>>, NoBody) : p \in {P_KBO1, P_KBOX, P_UNKNOWN}}

RouteReplies == {Reply(200, "b1", "")}

InitRoutes == InitWith({EnvAll}, EmptyMap, NoRequests)

NextRoutes ==
  \/ \E r \in RouteRequests : Receive(r, MaxArrivals, MaxSuspended)
  \/ \E s \in Slots : JsonResolved(s)
  \/ \E s \in Slots, failed \in BOOLEAN : FetchResolved(s, failed)
  \/ \E s \in Slots, reply \in RouteReplies, textOk \in BOOLEAN :
       TextResolved(s, reply, textOk)
  \/ \E r \in RouteRequestsV1 : ReceiveV1(r, MaxSuspended)
  \/ \E s \in Slots, failed \in BOOLEAN : FetchResolvedV1(s, failed)
  \/ \E s \in Slots, reply \in RouteReplies, textOk \in BOOLEAN :
       TextResolvedV1(s, reply, textOk)

SpecRoutes == InitRoutes /\ [][NextRoutes]_vars

----------------------------------------------------------------------------
\* Credentials: the same requests and upstream replies under two valuations
\* of the four credentials, all of them configured

EnvOther ==
  [EnvAll EXCEPT !.ANTHROPIC_API_KEY = "sk-ant-2", !.CBEAPI_TOKEN = "cbe-token-2",
                 !.GNEWS_API_KEY = "gnews-key-2", !.FINNHUB_KEY = "finnhub-key-2"]

CredEnvs == {EnvAll, EnvOther}

CredRequests ==
  {Req("GET", S_HEALTH, <<>>, <<>>, <<>>, NoBody),
   Req("GET", P_UNKNOWN, <<>>, <<>>, <<>>, NoBody),
   Req("GET", P_KBO1, <<>>, <<>>, <<>>, NoBody),
   Req("GET", P_GNEWS1, <<>>, <<>>, <<>>, NoBody),
   Req("GET", P_GNEWS1, <<"?", "q">>, <<>>, <<>>, NoBody),
   Req("GET", P_FINNHUB1, <<>>, <<>>, <<>>, NoBody),
   Req("POST", S_ANTHROPIC, <<>>, <<>>, <<>>, BodyOf("object", "array")),
   Req("POST", S_ANTHROPIC, <<>>, <<>>, <<>>, BodyOf("unparsable", "absent"))}

CredReplies == {Reply(st, "b1", "") : st \in {200, 500}}

InitCreds == InitWith(CredEnvs, EmptyMap, NoRequests)

NextCreds ==
  \/ \E r \in CredRequests : Receive(r, MaxArrivals, MaxSuspended)
  \/ \E s \in Slots : JsonResolved(s)
  \/ \E s \in Slots, failed \in BOOLEAN : FetchResolved(s, failed)
  \/ \E s \in Slots, reply \in CredReplies, textOk \in BOOLEAN :
       TextResolved(s, reply, textOk)

SpecCreds == InitCreds /\ [][NextCreds]_vars

----------------------------------------------------------------------------
\* The order of the pipeline: every kind of request from two clients.  The
\* run starts in the state reached when the client without CF-Connecting-IP
\* had its GET on /api/kbo/1 stored at time 0 and, CACHE_TTL later, has made
\* RATE_LIMIT_MAX - 1 requests for /health: the cache holds an entry that has
\* expired, and the client's window is nearly used.

OrderRequests ==
  {Req(m, p, <<>>, ip, <<>>, NoBody) :
     m \in {"GET", "OPTIONS"}, p \in {S_HEALTH, P_KBO1}, ip \in {<<>>, <<"1.1.1.1">>}}
  \cup {Req("GET", P_UNKNOWN, <<>>, <<>>, <<>>, NoBody),
        Req("POST", S_ANTHROPIC, <<>>, <<>>, <<>>, BodyOf("object", "array"))}

OrderReplies == {Reply(200, "b2", "")}

StoredAtZero ==
  [k \in {P_KBO1} |->
     [body |-> "b1", status |-> 200, contentType |-> "application/json",
      expiresAt |-> CACHE_TTL]]

QuotaNearlyUsed ==
  [c \in {"unknown"} |->
     [count |-> RATE_LIMIT_MAX - 1, resetAt |-> CACHE_TTL + RATE_LIMIT_WINDOW]]

InitOrder ==
  /\ now = CACHE_TTL
  /\ env = EnvAll
  /\ rateLimitMap = QuotaNearlyUsed
  /\ rateLimitRest = NoRest
  /\ responseCache = StoredAtZero
  /\ inflight = [s \in Slots |-> Idle]
  /\ ev = NoEvent("init")
  /\ win = [c \in Clients |-> IF c = "unknown" THEN RATE_LIMIT_MAX - 1 ELSE 0]
  /\ pinned = StoredAtZero
  /\ nticks = 0
  /\ admitted = NoLog

NextOrder ==
  \/ \E r \in OrderRequests :
       Receive(r, IF r.ip = <<>> THEN MaxCount ELSE MaxCountOthers, MaxSuspended)
  \/ \E s \in Slots : JsonResolved(s)
  \/ \E s \in Slots, failed \in BOOLEAN : FetchResolved(s, failed)
  \/ \E s \in Slots, reply \in OrderReplies, textOk \in BOOLEAN :
       TextResolved(s, reply, textOk)

SpecOrder == InitOrder /\ [][NextOrder]_vars

----------------------------------------------------------------------------
\* Interleaved handlers: requests that suspend once, twice and three times,
\* from two clients, several of them in flight.  The run starts in the state
\* reached when the client 1.1.1.1 made RATE_LIMIT_MAX - 1 requests for
\* /health at time 0 and the client without CF-Connecting-IP made as many at
\* time 1, RATE_LIMIT_WINDOW later: the window of the first has passed, the
\* window of the second is in its last instant.

InterleaveRequests ==
  {Req("GET", S_HEALTH, <<>>, <<>>, <<>>, NoBody),
   Req("GET", P_KBO1, <<>>, <<>>, <<>>, NoBody),
   Req("POST", S_ANTHROPIC, <<>>, <<>>, <<>>, BodyOf("object", "array")),
   Req("POST", S_ANTHROPIC, <<>>, <<"1.1.1.1">>, <<>>, BodyOf("object", "absent")),
   Req("GET", P_KBO1, <<>>, <<"1.1.1.1">>, <<>>, NoBody)}

InterleaveReplies == {Reply(200, "b1", "")}

TwoWindows ==
  [c \in Clients |->
     IF c = "unknown"
     THEN [count |-> RATE_LIMIT_MAX - 1, resetAt |-> 1 + RATE_LIMIT_WINDOW]
     ELSE [count |-> RATE_LIMIT_MAX - 1, resetAt |-> RATE_LIMIT_WINDOW]]

InitInterleave ==
  /\ now = 1 + RATE_LIMIT_WINDOW
  /\ env = EnvAll
  /\ rateLimitMap = TwoWindows
  /\ rateLimitRest = NoRest
  /\ responseCache = EmptyMap
  /\ inflight = [s \in Slots |-> Idle]
  /\ ev = NoEvent("init")
  /\ win = [c \in Clients |-> RATE_LIMIT_MAX - 1]
  /\ pinned = EmptyMap
  /\ nticks = 0
  /\ admitted = NoLog

NextInterleave ==
  \/ \E r \in InterleaveRequests :
       Receive(r, IF r.ip = <<>> THEN MaxCount ELSE MaxArrivals, MaxInflight)
  \/ \E s \in Slots : JsonResolved(s)
  \/ \E s \in Slots, failed \in BOOLEAN : FetchResolved(s, failed)
  \/ \E s \in Slots, reply \in InterleaveReplies, textOk \in BOOLEAN :
       TextResolved(s, reply, textOk)

SpecInterleave == InitInterleave /\ [][NextInterleave]_vars

----------------------------------------------------------------------------
\* The sweep of setCache: a cache filled to its sweep threshold.  The run
\* starts in the state reached when GETs of /api/kbo/1 .. /api/kbo/250 were
\* stored at time 0 and GETs of the keys from /api/kbo/251 on at time 1, and
\* CACHE_TTL has passed since time 0 with no request: CACHE_SWEEP or
\* CACHE_SWEEP + 1 entries, the older ones at their expiry instant.

DigitChars == <<"0", "1", "2", "3", "4", "5", "6", "7", "8", "9">>

RECURSIVE Digits(_)
Digits(n) ==
  IF n < 10 THEN <<DigitChars[n + 1]>>
  ELSE Digits(n \div 10) \o <<DigitChars[(n % 10) + 1]>>

\* The path /api/kbo/<n>
P_KBO(n) == S_KBO \o <<"/">> \o Digits(n)

StoredAt(t) ==
  [body |-> "b1", status |-> 200, contentType |-> "application/json",
   expiresAt |-> t + CACHE_TTL]

FilledCache(n) ==
  LET early == {P_KBO(i) : i \in 1..(CACHE_SWEEP \div 2)}
      late == {P_KBO(i) : i \in (CACHE_SWEEP \div 2 + 1)..n}
  IN  [k \in early \cup late |-> IF k \in early THEN StoredAt(0) ELSE StoredAt(1)]

SweepRequests ==
  {Req("GET", P_KBO(0), <<>>, <<>>, <<>>, NoBody),
   Req("GET", P_KBO(0), <<"?", "q">>, <<>>, <<>>, NoBody),
   Req("GET", P_KBO(CACHE_SWEEP), <<>>, <<>>, <<>>, NoBody)}

SweepReplies == {Reply(200, "b2", "")}

SweepDeltas == {1}

InitSweep ==
  /\ now = CACHE_TTL
  /\ env = EnvAll
  /\ rateLimitMap = EmptyMap
  /\ rateLimitRest = NoRest
  /\ responseCache \in {FilledCache(n) : n \in {CACHE_SWEEP, CACHE_SWEEP + 1}}
  /\ inflight = [s \in Slots |-> Idle]
  /\ ev = NoEvent("init")
  /\ win = NoRequests
  /\ pinned = responseCache
  /\ nticks = 0
  /\ admitted = NoLog

NextSweep ==
  \/ \E d \in SweepDeltas : Tick(d)
  \/ \E r \in SweepRequests : Receive(r, MaxArrivals, MaxSuspended)
  \/ \E s \in Slots, failed \in BOOLEAN : FetchResolved(s, failed)
  \/ \E s \in Slots, reply \in SweepReplies, textOk \in BOOLEAN :
       TextResolved(s, reply, textOk)

SpecSweep == InitSweep /\ [][NextSweep]_vars

----------------------------------------------------------------------------
\* Bursts: one client sends requests while time passes to the end of its
\* window and just past it, and batches of other client ids push the table
\* past its cleanup threshold; the admissions are logged.  Bound of the
\* model: time passes when the client's entry has counted at most one request
\* or RATE_LIMIT_MAX - 1 or more.

BurstRequests == {Req("GET", S_HEALTH, <<>>, <<>>, <<>>, NoBody)}

BurstDeltas == {1, RATE_LIMIT_WINDOW}

BurstBatches == {RATE_LIMIT_SWEEP}

BurstBound ==
  IF countOf("unknown") <= 1 THEN TRUE ELSE countOf("unknown") >= RATE_LIMIT_MAX - 1

InitBurst ==
  /\ now = 0
  /\ env = EnvNone
  /\ rateLimitMap = EmptyMap
  /\ rateLimitRest = NoRest
  /\ responseCache = EmptyMap
  /\ inflight = [s \in Slots |-> Idle]
  /\ ev = NoEvent("init")
  /\ win = NoRequests
  /\ pinned = EmptyMap
  /\ nticks = 0
  /\ admitted = NewLog

NextBurst ==
  \/ \E d \in BurstDeltas : BurstBound /\ Tick(d)
  \/ \E r \in BurstRequests : Receive(r, MaxCount, 0)
  \/ \E n \in BurstBatches : OtherClients(n)

SpecBurst == InitBurst /\ [][NextBurst]_vars

----------------------------------------------------------------------------
\* The client id of the request of the step just taken
EvClient == headerOr(ev.req.ip, "unknown")

\* The step just taken is the arrival of a request the rate limiter checked
EvChecked == ev.act = "recv" /\ ev.req.method # "OPTIONS"

\* The handler answered 429 in the step just taken
EvDenied == ev.done /\ ev.resp.status = 429

\* C1: within one window of a client (from the request that created or reset
\* its entry until the next reset) the first RATE_LIMIT_MAX = 20 checked
\* requests are admitted and the 21st and every later one is answered 429.
C1_WindowQuota ==
  EvChecked =>
    /\ win[EvClient] >= 1
    /\ IF win[EvClient] <= 20 THEN ~EvDenied ELSE EvDenied

\* C1 witness: a 21st request of a window is denied, with the table past its
\* cleanup threshold.
C1_Witness ==
  /\ EvChecked
  /\ win[EvClient] = 21
  /\ EvDenied
  /\ rlSize(rateLimitMap, rateLimitRest) > RATE_LIMIT_SWEEP

\* C2: the first request of a client that arrives at a time now > resetAt is
\* admitted whatever the count of the old window was, and leaves the entry
\* with count = 1 and resetAt = now + 60000.
C2_NewWindow ==
  (EvChecked /\ ev.prior # NoPrior /\ now > ev.prior.resetAt) =>
    /\ ~EvDenied
    /\ EvClient \in DOMAIN rateLimitMap
    /\ rateLimitMap[EvClient] = [count |-> 1, resetAt |-> now + 60000]

\* C2 witness: a request arrives after resetAt when the old window had counted
\* past the quota (its last requests denied).
C2_Witness ==
  /\ EvChecked
  /\ ev.prior.count > 21
  /\ now > ev.prior.resetAt
  /\ ~EvDenied

\* The cache key of the request of the step just taken
EvKey == ev.req.pathname \o ev.req.search

\* The response returned in the step just taken was built from the cache
EvHit == ev.done /\ ev.resp.xcache = "HIT"

\* The step just taken is the arrival of a GET on /api/kbo that was admitted
EvCacheableGet ==
  /\ ev.act = "recv"
  /\ ev.req.method = "GET"
  /\ startsWith(ev.req.pathname, S_KBO)
  /\ ~EvDenied

\* C3: a response built from the cache (X-Cache: HIT) comes from an entry with
\* now < expiresAt at the lookup and carries that entry's body and status; a
\* lookup that does not hit leaves no entry under the key, so an expired entry
\* found by getCached is deleted.
C3_NoStaleHit ==
  /\ EvHit =>
       /\ EvKey \in DOMAIN responseCache
       /\ now < responseCache[EvKey].expiresAt
       /\ ev.resp.body = responseCache[EvKey].body
       /\ ev.resp.status = responseCache[EvKey].status
  /\ (EvCacheableGet /\ ~EvHit) => EvKey \notin DOMAIN responseCache

\* C3 witness: a hit in the last millisecond of an entry's life.
C3_Witness ==
  /\ EvHit
  /\ EvKey \in DOMAIN responseCache
  /\ now = responseCache[EvKey].expiresAt - 1

\* An expired entry was found at its expiry instant and deleted.
C3_DeletedAtExpiry ==
  /\ EvCacheableGet
  /\ ~EvHit
  /\ EvKey \in DOMAIN pinned
  /\ now = pinned[EvKey].expiresAt
  /\ EvKey \notin DOMAIN responseCache

\* C4, as claimed: once an admitted GET on /api/kbo has stored its 2xx
\* response (pinned), an admitted GET of the same key that arrives less than
\* CACHE_TTL after that store returns the stored body and status without an
\* upstream call, and one that arrives at or after its expiresAt issues a
\* fresh upstream call.
C4_HitThenMiss ==
  (EvCacheableGet /\ EvKey \in DOMAIN pinned) =>
    IF now < pinned[EvKey].expiresAt
    THEN /\ EvHit
         /\ ev.resp.body = pinned[EvKey].body
         /\ ev.resp.status = pinned[EvKey].status
         /\ ev.calls = 0
    ELSE ~ev.done /\ ev.calls = 1

\* C6, as claimed: while the TTL of a key's entry has not elapsed, every
\* response served from the cache for that key has the body of that entry,
\* whatever other requests for the key were in flight.
C6_IdempotentWithinTTL ==
  (EvHit /\ EvKey \in DOMAIN pinned /\ now < pinned[EvKey].expiresAt) =>
    ev.resp.body = pinned[EvKey].body

\* C5: a step adds or replaces a cache entry only when it returns the 2xx
\* upstream response of a GET whose path starts with /api/kbo, under that
\* request's key; so every stored entry has a 2xx status, and POSTs, non-2xx
\* responses, the other routes and the chat-completion route store nothing.
C5_OnlyCacheableGet2xx ==
  [][\A k \in DOMAIN responseCache' :
       /\ responseCache'[k].status \in 200..299
       /\ (IF k \in DOMAIN responseCache THEN responseCache'[k] # responseCache[k]
           ELSE TRUE)
          => /\ ev'.act = "text"
             /\ ev'.done
             /\ ev'.req.method = "GET"
             /\ startsWith(ev'.req.pathname, S_KBO)
             /\ k = ev'.req.pathname \o ev'.req.search
             /\ ev'.resp.status \in 200..299
             /\ responseCache'[k].status = ev'.resp.status
             /\ responseCache'[k].body = ev'.resp.body]_vars

\* C5 witness: a GET on /api/kbo answered 299 by the upstream has just been stored.
C5_Witness ==
  /\ ev.act = "text"
  /\ ev.req.method = "GET"
  /\ ev.resp.status = 299
  /\ EvKey \in DOMAIN responseCache
  /\ responseCache[EvKey].status = 299

\* A POST on /api/kbo answered 200 by the upstream returned and nothing is cached.
C5_PostNotStored ==
  /\ ev.act = "text"
  /\ ev.req.method = "POST"
  /\ ev.req.pathname = P_KBO1
  /\ ev.resp.status = 200
  /\ responseCache = EmptyMap

\* The Origin header of the request of the step just taken ('' when absent)
EvOrigin == IF ev.req.origin = <<>> THEN "" ELSE ev.req.origin[1]

\* The allowlist of the configuration: the four fixed origins and
\* env.ALLOWED_ORIGIN when it is set
Allowlist ==
  {"https://meyermansheidi.github.io", "http://localhost:3000",
   "http://localhost:5500", "http://127.0.0.1:5500"}
  \cup (IF env.ALLOWED_ORIGIN # "" THEN {env.ALLOWED_ORIGIN} ELSE {})

\* The status each way of returning gives its response
EvStatusOfPath ==
  /\ ev.req.method = "OPTIONS" => ev.resp.status = 204 /\ ev.resp.body = ""
  /\ ev.resp.body = "rate-limit" <=> ev.resp.status = 429
  /\ ev.resp.body = "health" =>
       ev.resp.status = 200 /\ ev.req.pathname \in {S_ROOT, S_HEALTH}
  /\ ev.resp.body = "no-key" <=> ev.resp.status = 503
  /\ ev.resp.body = "bad-request" <=> ev.resp.status = 400
  /\ ev.resp.body \in {"chat-failed", "api-failed"} <=> ev.resp.status = 502
  /\ ev.resp.body = "no-route" <=> ev.resp.status = 404
  /\ ev.resp.xcache = "HIT" => ev.resp.status = responseCache[EvKey].status
  /\ ev.resp.body = "b1" => ev.resp.status \in {200, 500}

\* C7: every response the handler returns, on every path, carries the five
\* CORS headers set by corsResponse, and the status of the response it wraps.
C7_CorsOnEveryResponse ==
  ev.done =>
    /\ ev.resp.acao \in Allowlist
    /\ ev.resp.acam = "GET, POST, OPTIONS"
    /\ ev.resp.acah = "Content-Type, Authorization"
    /\ ev.resp.acma = "86400"
    /\ ev.resp.vary = "Origin"
    /\ EvStatusOfPath

\* C7 witness: an upstream failure on the chat-completion route is answered
\* 502 with the CORS headers.
C7_Witness ==
  /\ ev.done
  /\ ev.req.pathname = S_ANTHROPIC
  /\ ev.act = "fetch"
  /\ ev.resp.status = 502
  /\ ev.resp.acao = "https://meyermansheidi.github.io"
  /\ ev.resp.vary = "Origin"

\* Each of the statuses of C7 is returned
C7_Reach204 == ev.done /\ ev.resp.status = 204
C7_Reach429 == ev.done /\ ev.resp.status = 429
C7_Reach200 == ev.done /\ ev.resp.body = "health"
C7_Reach503 == ev.done /\ ev.resp.status = 503
C7_Reach400 == ev.done /\ ev.resp.status = 400
C7_Reach404 == ev.done /\ ev.resp.status = 404
C7_ReachHit == ev.done /\ ev.resp.xcache = "HIT"
C7_ReachMiss == ev.done /\ ev.resp.xcache = "MISS" /\ ev.resp.status = 500
C7_ReachChat == ev.done /\ ev.act = "text" /\ ev.req.pathname = S_ANTHROPIC /\ ev.resp.body = "b1"

\* C8: Access-Control-Allow-Origin is the request's Origin exactly when that
\* origin is in the allowlist, and the first allowlist entry otherwise (no
\* origin, 'null' or an unrecognized one, which is never echoed).
C8_AllowOrigin ==
  ev.done =>
    ev.resp.acao = IF EvOrigin \in Allowlist THEN EvOrigin
                   ELSE "https://meyermansheidi.github.io"

\* C8 witness: the configured extra origin is echoed.
C8_Witness ==
  /\ ev.done
  /\ env.ALLOWED_ORIGIN = "https://custom.example"
  /\ EvOrigin = "https://custom.example"
  /\ ev.resp.acao = "https://custom.example"

\* An unrecognized origin gets the first allowlist entry; 'null' is echoed
\* only when the configuration allows it
C8_ReachEvil == ev.done /\ EvOrigin = "https://evil.example" /\ ev.resp.acao = "https://meyermansheidi.github.io"
C8_ReachNullEcho == ev.done /\ EvOrigin = "null" /\ ev.resp.acao = "null"
C8_ReachNullFirst == ev.done /\ EvOrigin = "null" /\ ev.resp.acao = "https://meyermansheidi.github.io"

\* A request of the chat-completion route
IsChat(r) == r.method = "POST" /\ r.pathname = S_ANTHROPIC

\* C9: without env.ANTHROPIC_API_KEY an admitted POST to /api/anthropic is
\* answered 503 on arrival, whatever its body: request.json() is not called,
\* no upstream fetch is issued and no handler of the route is ever suspended.
C9_NoKey503 ==
  env.ANTHROPIC_API_KEY = "" =>
    /\ \A s \in Slots : ~IsChat(inflight[s].req)
    /\ (ev.act = "recv" /\ IsChat(ev.req) /\ ~EvDenied) =>
         /\ ev.done
         /\ ev.resp.status = 503
         /\ ~ev.bodyRead
         /\ ev.calls = 0

\* C9 witness: a request whose body is not JSON is answered 503 (not 502).
C9_Witness ==
  /\ env.ANTHROPIC_API_KEY = ""
  /\ ev.act = "recv"
  /\ IsChat(ev.req)
  /\ ev.req.body.json = "unparsable"
  /\ ev.resp.status = 503

\* C10, as claimed: with the credential configured, a POST to /api/anthropic
\* whose body gives no messages array (absent, not an array, not an object,
\* not parsable) is answered 400 without an upstream call, and a 502 of this
\* route means that the upstream fetch was issued.
C10_BadShape400 ==
  (ev.done /\ IsChat(ev.req) /\ env.ANTHROPIC_API_KEY # "" /\ ~EvDenied) =>
    /\ (ev.req.body.json # "object" \/ ev.req.body.messages # "array") =>
         ev.resp.status = 400 /\ ev.calls = 0
    /\ ev.resp.status = 502 => ev.calls = 1

\* What the code does hold to: a parsed, non-null body without a messages
\* array is answered 400 without an upstream call.
C10_ParsedBadShape400 ==
  (ev.done /\ IsChat(ev.req) /\ env.ANTHROPIC_API_KEY # "" /\ ~EvDenied
     /\ ev.req.body.json \in {"scalar", "object"} /\ ev.req.body.messages # "array") =>
    ev.resp.status = 400 /\ ev.calls = 0

\* The step just taken issued the upstream fetch of the chat-completion route
EvChatSent == ev.act = "json" /\ ~ev.done /\ IsChat(ev.req)

\* C11, as claimed: the forwarded max_tokens is min(requested, 4096) whenever
\* the request sets max_tokens (0 included), 2048 when it leaves it unset, and
\* never more than 4096.
C11_MaxTokensClamped ==
  EvChatSent =>
    /\ ev.sent.max_tokens =
         IF ev.req.body.max_tokens = <<>> THEN 2048
         ELSE IF ev.req.body.max_tokens[1] <= 4096 THEN ev.req.body.max_tokens[1]
         ELSE 4096
    /\ ev.sent.max_tokens <= 4096

\* What the code does hold to: the forwarded max_tokens never exceeds 4096,
\* is 2048 for an unset value, and is min(requested, 4096) for every set value
\* other than 0.
C11_ClampedUnlessZero ==
  EvChatSent =>
    /\ ev.sent.max_tokens <= 4096
    /\ ev.req.body.max_tokens = <<>> => ev.sent.max_tokens = 2048
    /\ (ev.req.body.max_tokens # <<>> /\ ev.req.body.max_tokens # <<0>>) =>
         ev.sent.max_tokens =
           IF ev.req.body.max_tokens[1] <= 4096 THEN ev.req.body.max_tokens[1] ELSE 4096

\* max_tokens: 999999 is forwarded as 4096
C11_ReachClamped ==
  EvChatSent /\ ev.req.body.max_tokens = <<999999>> /\ ev.sent.max_tokens = 4096

\* max_tokens: 0 is forwarded as 2048
C11_ReachZero ==
  EvChatSent /\ ev.req.body.max_tokens = <<0>> /\ ev.sent.max_tokens = 2048

\* C12, as claimed: the forwarded temperature (in tenths) is min(requested,
\* 1.0) whenever the request sets temperature (0 included), and 0.7 only when
\* the request leaves it unset.
C12_TemperatureClamped ==
  EvChatSent =>
    ev.sent.temperature =
      IF ev.req.body.temperature = <<>> THEN 7
      ELSE IF ev.req.body.temperature[1] <= 10 THEN ev.req.body.temperature[1]
      ELSE 10

\* What the code does hold to: the forwarded temperature never exceeds 1.0,
\* is 0.7 for an unset value, and is min(requested, 1.0) for every set value
\* other than 0.
C12_ClampedUnlessZero ==
  EvChatSent =>
    /\ ev.sent.temperature <= 10
    /\ ev.req.body.temperature = <<>> => ev.sent.temperature = 7
    /\ (ev.req.body.temperature # <<>> /\ ev.req.body.temperature # <<0>>) =>
         ev.sent.temperature =
           IF ev.req.body.temperature[1] <= 10 THEN ev.req.body.temperature[1] ELSE 10

\* temperature: 0 is forwarded as 0.7
C12_ReachZero ==
  EvChatSent /\ ev.req.body.temperature = <<0>> /\ ev.sent.temperature = 7

\* The step just taken returned a response the handler made without the upstream
EvLocalAnswer ==
  /\ ev.done
  /\ IF ev.req.method = "OPTIONS" THEN TRUE
     ELSE IF ev.resp.xcache = "HIT" THEN TRUE
     ELSE ev.resp.body \in {"rate-limit", "health", "health-v1", "no-key", "bad-request",
                            "no-route", "no-route-v1"}

\* C13: a request issues at most one upstream fetch over its whole handling,
\* in both versions of the Worker; none when it is a preflight, is answered
\* 429, is / or /health, is answered 503, 400 or 404 by the handler, or is
\* served from the cache; a rejected upstream fetch ends the handler with a
\* 502 after that single fetch (no retry).
C13_AtMostOneUpstreamCall ==
  /\ \A s \in Slots :
       /\ inflight[s].calls <= 1
       /\ inflight[s].pc \in {"fetch", "fetchA", "text", "textA", "fetchV1", "textV1"} =>
            inflight[s].calls = 1
  /\ ev.calls <= 1
  /\ ev.sent # NoSent => ev.calls = 1 /\ ~ev.done
  /\ EvLocalAnswer => ev.calls = 0
  /\ (ev.act \in {"fetch", "fetchV1"} /\ ev.calls >= 1) =>
       IF ev.done THEN ev.resp.status = 502 /\ ev.calls = 1
       ELSE ev.sent = NoSent

\* C13 witness: the upstream fetch of a generic route was rejected, and the
\* handler answered 502 after its one fetch.
C13_Witness ==
  /\ ev.act = "fetch"
  /\ ev.done
  /\ ev.req.pathname = P_KBO1
  /\ ev.resp.status = 502
  /\ ev.calls = 1

\* The same in the first version, and a cache hit without a call
C13_ReachFailureV1 == ev.act = "fetchV1" /\ ev.done /\ ev.resp.status = 502 /\ ev.calls = 1
C13_ReachHit == ev.done /\ ev.resp.xcache = "HIT" /\ ev.calls = 0
C13_Reach404V1 == ev.done /\ ev.resp.body = "no-route-v1" /\ ev.calls = 0

\* The step just taken is the arrival of a non-OPTIONS request that was not
\* answered 429, at either version
EvAdmitted ==
  ev.act \in {"recv", "recvV1"} /\ ev.req.method # "OPTIONS" /\ ~EvDenied

\* The path is the i-th route's prefix itself or the prefix followed by '/'
UnderPrefix(pathname, i) ==
  IF pathname = API_ROUTES[i] THEN TRUE
  ELSE startsWith(pathname, API_ROUTES[i] \o <<"/">>)

\* The step just taken issued a fetch to the upstream of the i-th route
EvProxiedTo(i) ==
  /\ ev.sent # NoSent
  /\ startsWith(ev.sent.url, routeTarget(i))

\* C14, as claimed: an admitted non-OPTIONS request is proxied to the upstream
\* of a route only if its path is that route's prefix or the prefix followed
\* by '/'; every other path that is not '/', '/health' or a POST to
\* /api/anthropic is answered 404 with the route list and no upstream call.
C14_RoutesBySegment ==
  EvAdmitted =>
    /\ \A i \in DOMAIN API_ROUTES : EvProxiedTo(i) => UnderPrefix(ev.req.pathname, i)
    /\ (/\ \A i \in DOMAIN API_ROUTES : ~UnderPrefix(ev.req.pathname, i)
        /\ ev.req.pathname \notin {S_ROOT, S_HEALTH}
        /\ ~(ev.act = "recv" /\ IsChat(ev.req)))
       => /\ ev.done
          /\ ev.resp.status = 404
          /\ ev.resp.body \in {"no-route", "no-route-v1"}
          /\ ev.calls = 0

\* What the code does hold to: the same with "the path starts with the
\* prefix" in place of "the prefix or the prefix followed by '/'".
C14_RoutesByPrefix ==
  EvAdmitted =>
    /\ \A i \in DOMAIN API_ROUTES :
         EvProxiedTo(i) => startsWith(ev.req.pathname, API_ROUTES[i])
    /\ (/\ \A i \in DOMAIN API_ROUTES : ~startsWith(ev.req.pathname, API_ROUTES[i])
        /\ ev.req.pathname \notin {S_ROOT, S_HEALTH}
        /\ ~(ev.act = "recv" /\ IsChat(ev.req)))
       => /\ ev.done
          /\ ev.resp.status = 404
          /\ ev.resp.body \in {"no-route", "no-route-v1"}
          /\ ev.calls = 0

\* GET /api/kbox is proxied to the data-lookup upstream, with the credential
C14_ReachKbox ==
  /\ ev.act = "recv"
  /\ ev.req.pathname = P_KBOX
  /\ ev.sent.url = <<"https://cbeapi.be/api", "x">>
  /\ ev.sent.authorization = <<"Bearer ", "cbe-token">>

\* GET /api/anthropic and GET /api/unknown are answered 404
C14_Reach404Chat == ev.act = "recv" /\ ev.req.pathname = S_ANTHROPIC /\ ev.resp.status = 404
C14_Reach404Unknown == ev.act = "recv" /\ ev.req.pathname = P_UNKNOWN /\ ev.resp.status = 404

\* What a stretch of the handler leaves outside the outbound request: the
\* response, the tables, and where the handler goes on
Visible(o) == [o EXCEPT !.sent = NoSent]

\* The credentials of a configuration
Credentials(e) ==
  {e.ANTHROPIC_API_KEY, e.CBEAPI_TOKEN, e.GNEWS_API_KEY, e.FINNHUB_KEY}

\* The pieces of a cache key and the texts of a cache entry
CacheTexts(c) ==
  UNION {{k[i] : i \in DOMAIN k} \cup {c[k].body, c[k].contentType} : k \in DOMAIN c}

C15_ReachKeyInUrl ==
  ev.sent.url = <<"https://gnews.io/api/v4", "/", "1", "?", "q", "&", "apikey=", env.GNEWS_API_KEY>>
C15_ReachBearer == ev.sent.authorization = <<"Bearer ", env.CBEAPI_TOKEN>>
C15_ReachApiKey == ev.sent.xApiKey = <<env.ANTHROPIC_API_KEY>>
C15_ReachCached == ev.act = "text" /\ ev.req.pathname = P_KBO1 /\ responseCache # EmptyMap

\* C16: the arrival of a non-OPTIONS request, whatever its path, first
\* counts the request in its client's rate-limit entry (count + 1, or 1 in a
\* new window) and is answered 429 exactly when that count exceeds 20; a
\* denied request leaves the cache table and the suspended handlers as they
\* were and issues no upstream fetch; the arrival of an OPTIONS request leaves
\* the rate-limit table and the cache table unchanged and is answered 204.
C16_RateLimitFirst ==
  [][ev'.act = "recv" =>
       LET r == ev'.req
           c == headerOr(r.ip, "unknown")
           counted == IF c \in DOMAIN rateLimitMap
                      THEN IF now > rateLimitMap[c].resetAt THEN 1
                           ELSE rateLimitMap[c].count + 1
                      ELSE 1
       IN  IF r.method = "OPTIONS"
           THEN /\ rateLimitMap' = rateLimitMap
                /\ rateLimitRest' = rateLimitRest
                /\ responseCache' = responseCache
                /\ ev'.done
                /\ ev'.resp.status = 204
                /\ ev'.calls = 0
           ELSE /\ c \in DOMAIN rateLimitMap'
                /\ rateLimitMap'[c].count = counted
                /\ (ev'.done /\ ev'.resp.status = 429) <=> counted > 20
                /\ counted > 20 =>
                     /\ responseCache' = responseCache
                     /\ inflight' = inflight
                     /\ ev'.calls = 0
                     /\ ev'.sent = NoSent]_vars

\* C16 witness: a GET on /api/kbo whose cached entry has expired is denied,
\* and the expired entry is still in the cache.
C16_Witness ==
  /\ ev.act = "recv"
  /\ ev.req.method = "GET"
  /\ ev.req.pathname = P_KBO1
  /\ ev.resp.status = 429
  /\ P_KBO1 \in DOMAIN responseCache
  /\ now >= responseCache[P_KBO1].expiresAt

\* /health and the chat-completion route are denied too; a preflight of a
\* client over its quota is answered 204
C16_ReachHealthDenied == ev.req.pathname = S_HEALTH /\ ev.resp.status = 429
C16_ReachChatDenied == IsChat(ev.req) /\ ev.resp.status = 429
C16_ReachPreflight ==
  /\ ev.req.method = "OPTIONS"
  /\ ev.resp.status = 204
  /\ "unknown" \in DOMAIN rateLimitMap
  /\ rateLimitMap["unknown"].count > 20
  /\ now <= rateLimitMap["unknown"].resetAt

\* The handlers suspended at an await
Suspended == {s \in Slots : inflight[s].pc # "idle"}

\* C17: whatever handlers are suspended and in whatever order they resume,
\* the count of every client's entry is the number of that client's
\* non-OPTIONS requests received since the entry's window began, and the n-th
\* of them is denied exactly when n > 20, so that min(N, 20) of N are admitted.
C17_NoLostUpdate ==
  /\ \A c \in DOMAIN rateLimitMap : rateLimitMap[c].count = win[c]
  /\ EvChecked => (EvDenied <=> win[EvClient] > 20)

\* C17 witness: with two handlers suspended, one of them of the same client,
\* that client's 21st request of the window has just been denied.
C17_Witness ==
  /\ Cardinality(Suspended) = 2
  /\ \E s \in Suspended : inflight[s].req.ip = <<>>
  /\ EvChecked
  /\ EvClient = "unknown"
  /\ win["unknown"] = 21
  /\ EvDenied

\* A handler resumed after its client's window was reset by a later request,
\* the entry counting the requests of the new window only
C17_ReachResumeAfterReset ==
  /\ ev.act \in {"json", "fetch", "text"}
  /\ ev.req.ip = <<"1.1.1.1">>
  /\ \E s \in Suspended : inflight[s].req.ip = <<"1.1.1.1">>
  /\ rateLimitMap["1.1.1.1"].count = 2
  /\ rateLimitMap["1.1.1.1"].resetAt = now + RATE_LIMIT_WINDOW

\* C18, as claimed: a step that stores a response (setCache) while the table
\* holds more than 500 entries deletes every other entry with expiresAt <= now
\* and retains every other entry with expiresAt > now as it is; with 500
\* entries or fewer every other entry stays as it is; no other key appears;
\* and the written entry has expiresAt = now + 300000.
C18_SweepRemovesExpired ==
  [][(/\ ev'.act = "text"
      /\ ev'.done
      /\ ev'.resp.xcache = "MISS"
      /\ storesReply(ev'.req, ev'.resp))
     => LET key == ev'.req.pathname \o ev'.req.search
            others == DOMAIN responseCache \ {key}
        IN  /\ key \in DOMAIN responseCache'
            /\ responseCache'[key].expiresAt = now + 300000
            /\ DOMAIN responseCache' \subseteq DOMAIN responseCache \cup {key}
            /\ \A k \in others :
                 IF Cardinality(DOMAIN responseCache) > 500
                      /\ responseCache[k].expiresAt <= now
                 THEN k \notin DOMAIN responseCache'
                 ELSE /\ k \in DOMAIN responseCache'
                      /\ responseCache'[k] = responseCache[k]]_vars

\* What the code does hold to: the same with "expiresAt < now" for the
\* entries the sweep deletes; an entry with expiresAt = now is retained.
C18_SweepRemovesPastExpiry ==
  [][(/\ ev'.act = "text"
      /\ ev'.done
      /\ ev'.resp.xcache = "MISS"
      /\ storesReply(ev'.req, ev'.resp))
     => LET key == ev'.req.pathname \o ev'.req.search
            others == DOMAIN responseCache \ {key}
        IN  /\ key \in DOMAIN responseCache'
            /\ responseCache'[key].expiresAt = now + 300000
            /\ DOMAIN responseCache' \subseteq DOMAIN responseCache \cup {key}
            /\ \A k \in others :
                 IF Cardinality(DOMAIN responseCache) > 500
                      /\ responseCache[k].expiresAt < now
                 THEN k \notin DOMAIN responseCache'
                 ELSE /\ k \in DOMAIN responseCache'
                      /\ responseCache'[k] = responseCache[k]]_vars

\* A store swept the table: the entries past their expiry are gone, those at
\* their expiry instant are still there
C18_ReachSwept ==
  /\ ev.act = "text"
  /\ P_KBO(1) \notin DOMAIN responseCache
  /\ P_KBO(CACHE_SWEEP) \in DOMAIN responseCache
  /\ responseCache[P_KBO(CACHE_SWEEP)].expiresAt = now

\* A store with 500 entries in the table swept nothing
C18_ReachNoSweep ==
  /\ ev.act = "text"
  /\ now > CACHE_TTL
  /\ Cardinality(DOMAIN responseCache) = CACHE_SWEEP + 1
  /\ P_KBO(1) \in DOMAIN responseCache

\* C19: a step removes an entry of the rate-limit table only when its window
\* has passed (now > resetAt), and never the entry of the request it checks;
\* an entry whose window is still open stays, with its resetAt and a count
\* that has not gone down, whatever other client ids are added to the table;
\* and a request that finds its client's open window at 20 or more is denied.
C19_SweepKeepsOpenWindows ==
  [][/\ \A c \in DOMAIN rateLimitMap :
          /\ c \notin DOMAIN rateLimitMap' => now' > rateLimitMap[c].resetAt
          /\ now' <= rateLimitMap[c].resetAt =>
               /\ c \in DOMAIN rateLimitMap'
               /\ rateLimitMap'[c].resetAt = rateLimitMap[c].resetAt
               /\ rateLimitMap'[c].count >= rateLimitMap[c].count
     /\ rateLimitRest'.n < rateLimitRest.n => now' > rateLimitRest.resetAt
     /\ (ev'.act = "recv" /\ ev'.req.method # "OPTIONS") =>
          LET c == headerOr(ev'.req.ip, "unknown")
          IN  /\ c \in DOMAIN rateLimitMap'
              /\ (/\ c \in DOMAIN rateLimitMap
                  /\ now' <= rateLimitMap[c].resetAt
                  /\ rateLimitMap[c].count >= 20)
                 => ev'.resp.status = 429]_vars

\* C19 witness: with more than 10,000 entries in the table, a request of a
\* client over its quota was denied in the step whose sweep removed the
\* expired entry of the other tracked client; the untracked entries, not
\* expired, are still there.
C19_Witness ==
  /\ EvChecked
  /\ EvClient = "unknown"
  /\ EvDenied
  /\ win["1.1.1.1"] >= 1
  /\ "1.1.1.1" \notin DOMAIN rateLimitMap
  /\ rateLimitRest.n = RATE_LIMIT_SWEEP - 1
  /\ now <= rateLimitRest.resetAt

\* A sweep removed the untracked entries, all expired
C19_ReachRestSwept ==
  /\ EvChecked
  /\ rateLimitRest = NoRest
  /\ now > RATE_LIMIT_WINDOW
  /\ \A c \in Clients \ {EvClient} : c \notin DOMAIN rateLimitMap /\ win[c] >= 1

RECURSIVE SumAt(_, _)
SumAt(f, S) ==
  IF S = {} THEN 0
  ELSE LET k == CHOOSE x \in S : TRUE IN f[k] + SumAt(f, S \ {k})

\* The number of requests of client c admitted at the instants a .. b
AdmittedIn(c, a, b) ==
  SumAt(admitted.at, {k \in DOMAIN admitted.at : k[1] = c /\ a <= k[2] /\ k[2] <= b})

\* The instants at which a request of client c was admitted
AdmittedAt(c) == {k[2] : k \in {x \in DOMAIN admitted.at : x[1] = c}}

\* C20: for every client and every interval of 60000 ms (taken from an
\* instant at which one of its requests was admitted, which covers every
\* shorter and every other interval), at most 2 x 20 = 40 of the client's
\* requests were admitted in the interval.
C20_BurstBound ==
  \A c \in Clients : \A a \in AdmittedAt(c) : AdmittedIn(c, a, a + 60000) <= 40

\* C20 witness: 39 requests of a client were admitted within two consecutive
\* milliseconds, the last of one window and the first of the next, with the
\* table past its cleanup threshold.
C20_Witness ==
  /\ \E a \in AdmittedAt("unknown") : AdmittedIn("unknown", a, a + 1) = 39
  /\ rlSize(rateLimitMap, rateLimitRest) > RATE_LIMIT_SWEEP

\* The entry of the client was swept after its window and the client admitted again
C20_ReachAfterSweep ==
  /\ EvChecked
  /\ ~EvDenied
  /\ ev.prior = NoPrior
  /\ AdmittedAt("unknown") \ {now} # {}

====
